---------------------------- MODULE Spec2Model ----------------------------
(***************************************************************************)
(* Monte Carlo integration notebooks: blocking_variance,                   *)
(* gibbs_accept_reject, importance_integration and monte_carlo_integral.   *)
(*                                                                         *)
(* Floating-point values are modelled exactly: a value is a pair <<n, d>>  *)
(* standing for the rational n/d (d > 0, lowest terms), with the IEEE-754  *)
(* specials that numpy produces instead of raising: <<1, 0>> is +inf,      *)
(* <<-1, 0>> is -inf and <<0, 0>> is NaN.  Rounding is not modelled.       *)
(***************************************************************************)
EXTENDS Integers, Sequences, FiniteSets, TLC

VARIABLES
    \* blocking_variance(series, min_blocks)
    series, min_blocks, bv_pc, max_power, bin_sizes, bv_i, var_mean, err_var,
    bv_ret, blocks,
    \* gibbs_accept_reject(x0, thinning, burnin, N, step_size, target_pdf)
    x0, thinning, burnin, num_sweeps, step_size, target_pdf, gs_pc, x, sweep,
    j, x_prop, acc_ratio, samples, raw, draws, gs_ret,
    \* the last rng.uniform() value; the arrays that x and the entries of
    \* samples refer to
    u_acc, x_ref, sample_refs,
    \* importance_integration(f, target_pdf, m_chain)
    f, is_pdf, m_chain, is_pc, weights, estimate, is_ret,
    \* monte_carlo_integral(integrand, bounds, N)
    integrand, bounds, mc_N, mc_pc, mc_samples, vol, values, mc_estimate,
    std_error, mc_ret

bvVars == <<series, min_blocks, bv_pc, max_power, bin_sizes, bv_i, var_mean,
            err_var, bv_ret, blocks>>

gsVars == <<x0, thinning, burnin, num_sweeps, step_size, target_pdf, gs_pc,
            x, sweep, j, x_prop, acc_ratio, samples, raw, draws, gs_ret,
            u_acc, x_ref, sample_refs>>

isVars == <<f, is_pdf, m_chain, is_pc, weights, estimate, is_ret>>

mcVars == <<integrand, bounds, mc_N, mc_pc, mc_samples, vol, values,
            mc_estimate, std_error, mc_ret>>

vars == <<bvVars, gsVars, isVars, mcVars>>

\* what each function leaves alone
notBV == <<gsVars, isVars, mcVars>>
notGS == <<bvVars, isVars, mcVars>>
notIS == <<bvVars, gsVars, mcVars>>
notMC == <<bvVars, gsVars, isVars>>

---------------------------------------------------------------------------
(* Bounds of the model *)

\* longest series handed to blocking_variance
MaxN == 16
\* largest min_blocks handed to blocking_variance
MaxMinBlocks == 4
\* largest number of sweeps N handed to gibbs_accept_reject
MaxSweeps == 3
\* largest thinning stride and largest burn-in handed to gibbs_accept_reject
MaxThinning == 2
MaxBurnin == 1
\* largest proposal half-width, in grid units
MaxStep == 1
\* longest chain handed to importance_integration
MaxChain == 3
\* largest normalisation constant c of a density c * p
MaxScale == 2
\* largest number of samples N handed to monte_carlo_integral
MaxSamples == 3
\* rng.uniform() draws k / UGrid for k in 0..UGrid-1
UGrid == 2

---------------------------------------------------------------------------
(* The state of a function that is not being run *)

BVIdle ==
    /\ series = <<>>
    /\ min_blocks = 1
    /\ bv_pc = "idle"
    /\ max_power = 0
    /\ bin_sizes = <<>>
    /\ bv_i = 1
    /\ var_mean = <<>>
    /\ err_var = <<>>
    /\ bv_ret = <<>>
    /\ blocks = <<>>

GSIdle ==
    /\ x0 = <<>>
    /\ thinning = 1
    /\ burnin = 0
    /\ num_sweeps = 0
    /\ step_size = 0
    /\ target_pdf = [shape |-> "tent", c |-> 1]
    /\ gs_pc = "idle"
    /\ x = <<>>
    /\ sweep = 0
    /\ j = 0
    /\ x_prop = <<>>
    /\ acc_ratio = <<>>
    /\ samples = <<>>
    /\ raw = <<>>
    /\ draws = 0
    /\ gs_ret = <<>>
    /\ u_acc = <<>>
    /\ x_ref = <<"x0", 0>>
    /\ sample_refs = <<>>

ISIdle ==
    /\ f = "one"
    /\ is_pdf = [shape |-> "tent", c |-> 1]
    /\ m_chain = <<>>
    /\ is_pc = "idle"
    /\ weights = <<>>
    /\ estimate = <<>>
    /\ is_ret = <<>>

MCIdle ==
    /\ integrand = "one"
    /\ bounds = <<<<>>, <<>>>>
    /\ mc_N = 0
    /\ mc_pc = "idle"
    /\ mc_samples = <<>>
    /\ vol = 0
    /\ values = <<>>
    /\ mc_estimate = <<>>
    /\ std_error = <<>>
    /\ mc_ret = <<>>

---------------------------------------------------------------------------
(* numpy float64 arithmetic, exact on rationals, IEEE on the specials *)

Abs(a) == IF a < 0 THEN -a ELSE a

Sgn(a) == IF a < 0 THEN -1 ELSE IF a > 0 THEN 1 ELSE 0

RECURSIVE GCD(_, _)
GCD(a, b) == IF b = 0 THEN a ELSE GCD(b, a % b)

QNorm(n, d) ==
    IF d = 0 THEN <<Sgn(n), 0>>
    ELSE LET s == Sgn(d)
             g == GCD(Abs(n), Abs(d))
         IN  <<(s * n) \div g, (s * d) \div g>>

QInt(k) == <<k, 1>>
NaN == <<0, 0>>
PosInf == <<1, 0>>
IsNaN(a) == a = NaN
IsInf(a) == a[2] = 0 /\ a[1] # 0
IsFinite(a) == a[2] # 0

QMul(a, b) == QNorm(a[1] * b[1], a[2] * b[2])

\* a / b as numpy divides: x/0 is +-inf, 0/0 is NaN, with a warning only
QDiv(a, b) ==
    LET s == IF b[1] < 0 THEN -1 ELSE 1
    IN  QNorm(a[1] * b[2] * s, a[2] * Abs(b[1]))

QAdd(a, b) ==
    IF IsNaN(a) \/ IsNaN(b) THEN NaN
    ELSE IF IsInf(a) /\ IsInf(b) THEN (IF a = b THEN a ELSE NaN)
    ELSE IF IsInf(a) THEN a
    ELSE IF IsInf(b) THEN b
    ELSE QNorm(a[1] * b[2] + b[1] * a[2], a[2] * b[2])

QNeg(a) == <<-a[1], a[2]>>

QSub(a, b) == QAdd(a, QNeg(b))

\* a < b; every comparison with NaN is False
QLt(a, b) ==
    IF IsNaN(a) \/ IsNaN(b) THEN FALSE
    ELSE IF a[2] = 0 /\ b[2] = 0 THEN a[1] < b[1]
    ELSE a[1] * b[2] < b[1] * a[2]

RECURSIVE QSum(_)
QSum(s) == IF s = <<>> THEN QInt(0) ELSE QAdd(QSum(Tail(s)), Head(s))

\* np.mean of a non-empty one-dimensional array
QMean(s) == QDiv(QSum(s), QInt(Len(s)))

\* ndarray.var(ddof): sum |v - mean|^2 / (n - ddof)
QVar(s, ddof) ==
    LET m == QMean(s)
        dev == [i \in 1..Len(s) |-> QMul(QSub(s[i], m), QSub(s[i], m))]
    IN  QDiv(QSum(dev), QInt(Len(s) - ddof))

\* c * sqrt(r), kept symbolic: the pair <<c, r>>
Surd(c, r) == <<c, r>>

---------------------------------------------------------------------------
(* gibbs_accept_reject *)

\* States are vectors of integers (grid units).  The user-defined density is
\* c times one of two product densities that are zero off the support
\* {-1, 0}^d: the record [shape |-> .., c |-> ..].
PdfShapes == {"tent", "peak"}

\* the densities the sampler is run with
TargetPdfs == {[shape |-> sh, c |-> 1] : sh \in PdfShapes}

Pdf1(name, t) ==
    CASE name = "tent" -> (IF t = 0 THEN 2 ELSE IF t = -1 THEN 1 ELSE 0)
      [] name = "peak" -> (IF t = 0 THEN 4 ELSE IF t = -1 THEN 1 ELSE 0)

RECURSIVE PdfProd(_, _)
PdfProd(name, v) ==
    IF v = <<>> THEN 1 ELSE Pdf1(name, Head(v)) * PdfProd(name, Tail(v))

\* target_pdf(x) for one state x
TargetPdf(tp, v) == QInt(tp.c * PdfProd(tp.shape, v))

\* UniformStep with a fault: rng.uniform(-2 * step_size, 2 * step_size)
UniformStep_wide(s) == IF s = 0 THEN {0} ELSE (-2 * s)..(2 * s - 1)

\* the values rng.uniform(-step_size, step_size) may return: [-s, s)
UniformStep(s) == IF s = 0 THEN {0} ELSE (-s)..(s - 1)

\* the values rng.uniform() may return: [0, 1)
Uniform01 == {QNorm(k, UGrid) : k \in 0..(UGrid - 1)}

\* initial states: inside the support (density > 0) and outside it
X0Set == {<<0>>, <<1>>, <<0, 0>>}

\* x_prop = x.copy(); x_prop[j] = x[j] + delta        (j counts from 0)
Propose(v, jj, delta) == [v EXCEPT ![jj + 1] = v[jj + 1] + delta]

\* the array the caller passed as x0
X0Ref == <<"x0", 0>>

\* np.array(x0): a new array, not the caller's
NpArray(ref) == <<"x", 0>>

\* x.copy() with a fault: samples.append(x)
CopyRef_alias(ref, k) == ref

\* x.copy() in sweep k: a new array
CopyRef(ref, k) == <<"sample", k>>

\* x[j] = ... writes into the array x refers to: every name and list entry
\* that refers to the same array sees the new value
WriteThrough(ref, old, wref, new) == IF ref = wref THEN new ELSE old

\* x[j] = x_prop[j] with a fault: x[0] = x_prop[j]
Commit_first(v, vp, jj) == [v EXCEPT ![1] = vp[jj + 1]]

\* x[j] = x_prop[j]
Commit(v, vp, jj) == [v EXCEPT ![jj + 1] = vp[jj + 1]]

\* SweepDone with a fault: samples.append inside the loop over j
SweepDone_inner(jj, d) == jj >= 1

\* for j in range(d) has run out
SweepDone(jj, d) == jj = d

\* DrawsPerStep with a fault: no acceptance draw for a ratio of 0
DrawsPerStep_lazy(r) == IF r = QInt(0) THEN 1 ELSE 2

\* one rng.uniform(-step_size, step_size) and one rng.uniform() per step
DrawsPerStep(r) == 2

\* AccRatio with a fault: target_pdf(x_prop) / (target_pdf(x) + 1)
AccRatio_smoothed(tp, vp, v) ==
    QDiv(TargetPdf(tp, vp), QAdd(TargetPdf(tp, v), QInt(1)))

\* AccRatio with a fault: a zero-density current state gives ratio 0
AccRatio_guarded(tp, vp, v) ==
    IF TargetPdf(tp, v) = QInt(0) THEN QInt(0)
    ELSE QDiv(TargetPdf(tp, vp), TargetPdf(tp, v))

\* acc_ratio = target_pdf(x_prop) / target_pdf(x)
AccRatio(tp, vp, v) == QDiv(TargetPdf(tp, vp), TargetPdf(tp, v))

\* Accept with a fault: acc_ratio < rng.uniform()
Accept_flipped(u, r) == QLt(r, u)

\* Accept with a fault: rng.uniform() <= acc_ratio
Accept_le(u, r) == QLt(u, r) \/ (IsFinite(u) /\ u = r)

\* rng.uniform() < acc_ratio
Accept(u, r) == QLt(u, r)

\* samples[::thinning] for thinning >= 1: indices 0, t, 2t, ... below len
RECURSIVE Stride(_, _, _)
Stride(s, start, t) ==
    IF start > Len(s) THEN <<>>
    ELSE <<s[start]>> \o Stride(s, start + t, t)

ThinSlice(s, t) == Stride(s, 1, t)

\* samples[burnin:] for burnin >= 0
BurnSlice(s, b) == IF b >= Len(s) THEN <<>> ELSE SubSeq(s, b + 1, Len(s))

\* ThinBurn with a fault: burn-in first, thinning second
ThinBurn_burnFirst(s, t, b) == ThinSlice(BurnSlice(s, b), t)

\* lines 68-69
ThinBurn(s, t, b) == BurnSlice(ThinSlice(s, t), b)

GSInit ==
    /\ BVIdle
    /\ ISIdle
    /\ MCIdle
    /\ x0 \in X0Set
    /\ thinning \in 0..MaxThinning
    /\ burnin \in 0..MaxBurnin
    /\ num_sweeps \in 0..MaxSweeps
    /\ step_size \in 0..MaxStep
    /\ target_pdf \in TargetPdfs
    /\ gs_pc = "call"
    /\ x = <<>>
    /\ sweep = 0
    /\ j = 0
    /\ x_prop = <<>>
    /\ acc_ratio = <<>>
    /\ samples = <<>>
    /\ raw = <<>>
    /\ draws = 0
    /\ gs_ret = <<>>
    /\ u_acc = <<>>
    /\ x_ref = <<"x0", 0>>
    /\ sample_refs = <<>>

gsScalars == <<thinning, burnin, num_sweeps, step_size, target_pdf>>

gsParams == <<x0, gsScalars>>

\* lines 55-57: d = len(x0); samples = []; x = np.array(x0)
GSStart ==
    /\ gs_pc = "call"
    /\ x' = x0
    /\ samples' = <<>>
    /\ sweep' = 0
    /\ j' = 0
    /\ gs_pc' = "loop"
    /\ x_ref' = NpArray(X0Ref)
    /\ sample_refs' = <<>>
    /\ UNCHANGED <<gsParams, x_prop, acc_ratio, raw, draws, gs_ret, u_acc>>
    /\ UNCHANGED notGS

\* lines 60-65: the accept-reject step for coordinate j
GSCoord ==
    /\ gs_pc = "loop"
    /\ sweep < num_sweeps
    /\ ~SweepDone(j, Len(x0))
    /\ \E delta \in UniformStep(step_size), uu \in Uniform01 :
           LET xp == Propose(x, j, delta)
               r == AccRatio(target_pdf, xp, x)
               xn == IF Accept(uu, r) THEN Commit(x, xp, j) ELSE x
           IN  /\ x_prop' = xp
               /\ acc_ratio' = r
               /\ u_acc' = uu
               /\ x' = xn
               /\ x0' = WriteThrough(X0Ref, x0, x_ref, xn)
               /\ samples' = [i \in 1..Len(samples) |->
                                 WriteThrough(sample_refs[i], samples[i],
                                              x_ref, xn)]
               /\ draws' = draws + DrawsPerStep(r)
    /\ j' = j + 1
    /\ UNCHANGED <<gsScalars, gs_pc, sweep, raw, gs_ret, x_ref, sample_refs>>
    /\ UNCHANGED notGS

\* line 66, after the loop over the coordinates: samples.append(x.copy())
GSRecord ==
    /\ gs_pc = "loop"
    /\ sweep < num_sweeps
    /\ SweepDone(j, Len(x0))
    /\ samples' = Append(samples, x)
    /\ sample_refs' = Append(sample_refs, CopyRef(x_ref, sweep))
    /\ sweep' = sweep + 1
    /\ j' = 0
    /\ UNCHANGED <<gsParams, gs_pc, x, x_prop, acc_ratio, raw, draws, gs_ret,
                   u_acc, x_ref>>
    /\ UNCHANGED notGS

\* lines 68-70; a slice step of zero raises ValueError
GSFinish ==
    /\ gs_pc = "loop"
    /\ sweep >= num_sweeps
    /\ raw' = samples
    /\ IF thinning = 0
       THEN /\ gs_pc' = "ValueError"
            /\ UNCHANGED <<samples, gs_ret>>
       ELSE /\ samples' = ThinBurn(samples, thinning, burnin)
            /\ gs_ret' = ThinBurn(samples, thinning, burnin)
            /\ gs_pc' = "done"
    /\ UNCHANGED <<gsParams, x, sweep, j, x_prop, acc_ratio, draws, u_acc, x_ref,
                   sample_refs>>
    /\ UNCHANGED notGS

GSNext == GSStart \/ GSCoord \/ GSRecord \/ GSFinish

SpecGibbs == GSInit /\ [][GSNext]_vars

---------------------------------------------------------------------------
(* Claims about gibbs_accept_reject *)

CeilDiv(a, b) == (a + b - 1) \div b

\* C4: thinning first, burn-in second: the returned chain has length
\* max(0, ceil(N / t) - b) and its i-th element (from 0) is raw[(b + i) * t].
C4_ThinThenBurn ==
    (gs_pc = "done" /\ thinning >= 1 /\ burnin >= 0) =>
        LET n == CeilDiv(Len(raw), thinning) - burnin
            len == IF n > 0 THEN n ELSE 0
        IN  /\ Len(raw) = num_sweeps
            /\ Len(gs_ret) = len
            /\ \A i \in 0..(len - 1) :
                   gs_ret[i + 1] = raw[(burnin + i) * thinning + 1]

C4_Witness ==
    /\ gs_pc = "done"
    /\ thinning = 2
    /\ burnin = 1
    /\ Len(raw) = 3
    /\ raw[1] # raw[2]
    /\ raw[2] # raw[3]
    /\ raw[1] # raw[3]
    /\ gs_ret = <<raw[3]>>

\* C5 (as claimed): on otherwise valid input, when burn-in is at least the
\* post-thinning length the sampler signals an error; it never returns an
\* empty chain.
C5_InsufficientSamplesSignalled ==
    (/\ step_size > 0
     /\ num_sweeps >= 1
     /\ thinning >= 1
     /\ burnin >= CeilDiv(num_sweeps, thinning))
    => ~(gs_pc = "done" /\ gs_ret = <<>>)

\* C6 (as claimed): a non-positive half-width, num_sweeps < 1 or
\* thinning < 1 is rejected before any random draw and never returns a chain.
C6_InvalidInputRejected ==
    (step_size <= 0 \/ num_sweeps < 1 \/ thinning < 1) =>
        /\ draws = 0
        /\ gs_pc # "done"

\* C8: in a coordinate step from a state of density zero, a proposal of
\* finite positive density is accepted whatever the acceptance draw, and a
\* proposal of density zero leaves the run going.
C8_ZeroDensityCurrent ==
    [][(/\ gs_pc = "loop"
        /\ draws' = draws + 2
        /\ TargetPdf(target_pdf, x) = QInt(0))
       => /\ gs_pc' = "loop"
          /\ j' = j + 1
          /\ (IsFinite(TargetPdf(target_pdf, x_prop'))
                /\ QLt(QInt(0), TargetPdf(target_pdf, x_prop')))
             => x' = x_prop']_vars

C8_Witness ==
    /\ gs_pc = "loop"
    /\ draws > 0
    /\ TargetPdf(target_pdf, x0) = QInt(0)
    /\ acc_ratio = PosInf
    /\ x = x_prop
    /\ x # x0


\* the coordinate steps taken when sweep sweeps and jj steps of the next are done
CoordSteps(d, sw, jj) == d * sw + jj

\* C11: the sampler records exactly one state per sweep, after all d
\* coordinate steps of that sweep and never between two of them: a step that
\* lengthens the list of recorded states is taken with all d coordinates of
\* the sweep visited and appends the current state, a coordinate step leaves
\* the number of recorded states alone, and the list handed to thinning has
\* exactly num_sweeps entries
C11_OneStatePerSweep ==
    [][/\ (gs_pc = "loop" /\ gs_pc' = "loop" /\ Len(samples') # Len(samples))
              => /\ j = Len(x0)
                 /\ draws = 2 * CoordSteps(Len(x0), sweep + 1, 0)
                 /\ samples' = Append(samples, x)
                 /\ sweep' = sweep + 1
                 /\ Len(samples') = sweep'
       /\ (gs_pc = "loop" /\ draws' # draws)
              => /\ Len(samples') = Len(samples)
                 /\ sweep' = sweep
       /\ (gs_pc = "loop" /\ gs_pc' # "loop")
              => /\ raw' = samples
                 /\ Len(raw') = num_sweeps]_vars

C11_Witness ==
    /\ gs_pc = "done"
    /\ Len(x0) = 2
    /\ num_sweeps = 3
    /\ Len(raw) = 3
    /\ raw[1] # x0
    /\ raw[2] # raw[1]
    /\ raw[3] = raw[2]
    /\ draws = 12


\* C12: within a sweep the coordinates are visited in the order 0, 1, ..,
\* d-1, and the step for coordinate j changes at most coordinate j of the
\* current state: the proposal differs from the state in coordinate j only,
\* on acceptance x[j] takes the proposed value and every other coordinate
\* keeps its value, on rejection the whole state is unchanged
C12_OnlyCoordinateJ ==
    [][/\ (gs_pc = "loop" /\ draws' # draws)
              => /\ j < Len(x0)
                 /\ j' = j + 1
                 /\ \A k \in 1..Len(x0) :
                        k # j + 1 => (x'[k] = x[k] /\ x_prop'[k] = x[k])
                 /\ IF QLt(u_acc', acc_ratio')
                    THEN x'[j + 1] = x_prop'[j + 1]
                    ELSE x' = x
       /\ (gs_pc' = "loop" /\ j' # j)
              => \/ j' = j + 1
                 \/ (j' = 0 /\ j = Len(x0))
       /\ (gs_pc' = "loop" /\ x' # x)
              => (gs_pc = "call" \/ draws' # draws)]_vars

C12_Witness ==
    /\ gs_pc = "loop"
    /\ Len(x0) = 2
    /\ sweep = 1
    /\ j = 2
    /\ x = x_prop
    /\ x[2] # samples[1][2]
    /\ x[1] = samples[1][1]
    /\ x[1] # x[2]


\* C13: from a current state of positive density a proposal is accepted
\* exactly when the acceptance draw u is below r = p(x_prop) / p(x), that is
\* when u * p(x) < p(x_prop): a proposal with r >= 1 is accepted whatever u
\* is, and a proposal of zero density is rejected whatever u is
C13_AcceptIffBelowRatio ==
    [][(gs_pc = "loop" /\ draws' # draws /\ QLt(QInt(0), TargetPdf(target_pdf, x)))
          => LET p == TargetPdf(target_pdf, x)[1]
                 pp == TargetPdf(target_pdf, x_prop')[1]
             IN  /\ acc_ratio' = QNorm(pp, p)
                 /\ u_acc' \in Uniform01
                 /\ IF u_acc'[1] * p < pp * u_acc'[2]
                    THEN x' = x_prop'
                    ELSE x' = x
                 /\ pp >= p => x' = x_prop'
                 /\ pp = 0 => x' = x]_vars

C13_Witness ==
    /\ gs_pc = "loop"
    /\ draws > 0
    /\ acc_ratio = QNorm(1, 2)
    /\ u_acc = QInt(0)
    /\ x = x_prop
    /\ TargetPdf(target_pdf, x) = QInt(1)


\* target_pdf multiplied by the constant k
Scaled(tp, k) == [tp EXCEPT !.c = k * tp.c]

\* C14: the sampler depends on the density only up to its normalisation:
\* at every coordinate step, from the same state and with the same two
\* draws, the sampler run with k * target_pdf (k > 0) computes the same
\* ratio, takes the same accept/reject decision and moves to the same state
\* as the step taken, so that it records and returns the same chain
C14_ScaleInvariant ==
    [][(gs_pc = "loop" /\ draws' # draws)
          => \A k \in 1..MaxScale :
                 LET rk == AccRatio(Scaled(target_pdf, k), x_prop', x)
                 IN  /\ rk = acc_ratio'
                     /\ Accept(u_acc', rk) <=> Accept(u_acc', acc_ratio')
                     /\ x' = IF Accept(u_acc', rk)
                             THEN Commit(x, x_prop', j)
                             ELSE x]_vars

C14_Witness ==
    /\ gs_pc = "loop"
    /\ draws > 0
    /\ x # x_prop
    /\ acc_ratio = QNorm(1, 2)
    /\ ~QLt(u_acc, acc_ratio)
    /\ TargetPdf(Scaled(target_pdf, MaxScale), x) = QInt(2 * MaxScale)
    /\ AccRatio(Scaled(target_pdf, MaxScale), x_prop, x) = acc_ratio


\* C15: the current state is never aliased outside the loop: no step changes
\* the caller's x0, the array x refers to is neither the caller's nor one
\* that a recorded entry refers to, and the entries refer to arrays of their
\* own, so that a state recorded at one sweep is not altered by a coordinate
\* step of a later sweep
C15_NoAliasing ==
    [][/\ x0' = x0
       /\ gs_pc' = "loop"
              => /\ x_ref' # X0Ref
                 /\ \A i \in 1..Len(sample_refs') :
                        /\ sample_refs'[i] # x_ref'
                        /\ sample_refs'[i] # X0Ref
                        /\ \A k \in 1..Len(sample_refs') :
                               sample_refs'[k] = sample_refs'[i] => k = i
       /\ (gs_pc = "loop" /\ gs_pc' = "loop")
              => \A i \in 1..Len(samples) : samples'[i] = samples[i]]_vars

C15_Witness ==
    /\ gs_pc = "loop"
    /\ sweep = 2
    /\ j >= 1
    /\ Len(samples) = 2
    /\ samples[1] # samples[2]
    /\ x # samples[2]
    /\ x # x0
    /\ samples[1] = x0


\* C18: if the initial state has strictly positive density, every state the
\* sampler holds, every recorded state and every state of the raw and of the
\* returned chain has strictly positive density, so the importance weights
\* f(x) / target_pdf(x) on the sampler's output never divide by zero
C18_PositiveDensityPreserved ==
    QLt(QInt(0), TargetPdf(target_pdf, x0))
        => /\ gs_pc # "call" => QLt(QInt(0), TargetPdf(target_pdf, x))
           /\ \A i \in 1..Len(samples) :
                  QLt(QInt(0), TargetPdf(target_pdf, samples[i]))
           /\ \A i \in 1..Len(raw) :
                  QLt(QInt(0), TargetPdf(target_pdf, raw[i]))
           /\ \A i \in 1..Len(gs_ret) :
                  /\ QLt(QInt(0), TargetPdf(target_pdf, gs_ret[i]))
                  /\ IsFinite(QDiv(QInt(1), TargetPdf(target_pdf, gs_ret[i])))

C18_Witness ==
    /\ gs_pc = "done"
    /\ QLt(QInt(0), TargetPdf(target_pdf, x0))
    /\ Len(gs_ret) >= 2
    /\ gs_ret[1] # x0
    /\ gs_ret[2] # gs_ret[1]
    /\ acc_ratio = QInt(0)
    /\ x_prop # x


\* C19: in every coordinate, two consecutive recorded states of the raw
\* chain, and the initial state and the first recorded state, differ by at
\* most step_size in absolute value
C19_BoundedSweepMove ==
    LET Near(a, b) == \A k \in 1..Len(x0) : Abs(b[k] - a[k]) <= step_size
        Chain(s) == /\ Len(s) >= 1 => Near(x0, s[1])
                    /\ \A i \in 1..(Len(s) - 1) : Near(s[i], s[i + 1])
    IN  /\ gs_pc = "loop" => Chain(samples)
        /\ Chain(raw)

C19_Witness ==
    /\ gs_pc = "done"
    /\ step_size = 1
    /\ Len(x0) = 2
    /\ Len(raw) = 3
    /\ Abs(raw[1][1] - x0[1]) = 1
    /\ Abs(raw[2][2] - raw[1][2]) = 1
    /\ raw[3] = raw[2]


\* the steps a call has left: one to start, d + 1 per sweep, one to finish
StepsLeft(pc, sw, jj) ==
    IF pc = "call" THEN num_sweeps * (Len(x0) + 1) + 2
    ELSE IF pc = "loop" THEN (num_sweeps - sw) * (Len(x0) + 1) - jj + 1
    ELSE 0

\* the draws consumed are twice the coordinate steps taken, and before the
\* end the loops' conditions and the two draws leave a step to take
StepsTaken(pc, sw, jj, dr) ==
    /\ pc = "call" => dr = 0
    /\ pc = "loop"
           => /\ dr = 2 * CoordSteps(Len(x0), sw, jj)
              /\ sw <= num_sweeps
              /\ jj <= Len(x0)
              /\ sw = num_sweeps => jj = 0
              /\ UniformStep(step_size) # {}
              /\ Uniform01 # {}
    /\ pc \in {"done", "ValueError"}
           => /\ dr = 2 * num_sweeps * Len(x0)
              /\ sw = num_sweeps

\* C20: a call with dimension d and num_sweeps sweeps ends, by returning or
\* by raising at the slice, after exactly num_sweeps * d coordinate steps and
\* 2 * num_sweeps * d random draws, two for every coordinate step whether the
\* proposal is accepted or not: before and after every step the draws
\* consumed are twice the coordinate steps taken, every step brings the end
\* nearer, and the end is reached with no step left
C20_StepsAndDraws ==
    /\ [](/\ gs_pc = "call" => ENABLED GSStart
          /\ (gs_pc = "loop" /\ (SweepDone(j, Len(x0)) \/ sweep >= num_sweeps))
                 => ENABLED (GSRecord \/ GSFinish)
          /\ gs_pc \in {"done", "ValueError"} => ~ENABLED GSNext)
    /\ [][/\ StepsTaken(gs_pc, sweep, j, draws)
          /\ StepsTaken(gs_pc', sweep', j', draws')
          /\ StepsLeft(gs_pc', sweep', j') = StepsLeft(gs_pc, sweep, j) - 1
          /\ StepsLeft(gs_pc', sweep', j') >= 0
          /\ draws' # draws => (draws' = draws + 2 /\ j' = j + 1)
          /\ gs_pc' \in {"done", "ValueError"}
                 <=> StepsLeft(gs_pc', sweep', j') = 0]_vars

C20_Witness ==
    /\ gs_pc = "done"
    /\ Len(x0) = 2
    /\ num_sweeps = 3
    /\ draws = 2 * 3 * 2
    /\ raw[1] = x0
    /\ raw[2] # raw[1]
    /\ raw[3] = raw[2]

---------------------------------------------------------------------------
(* importance_integration and monte_carlo_integral *)

\* the user-defined functions to integrate, on one point
Integrands == {"one", "hat", "odd"}

RECURSIVE SumCoords(_)
SumCoords(v) == IF v = <<>> THEN 0 ELSE Head(v) + SumCoords(Tail(v))

Integrand(name, v) ==
    CASE name = "one" -> QInt(1)
      [] name = "hat" -> QInt(1 - SumCoords(v))
      [] name = "odd" -> QInt(SumCoords(v))

\* the points a chain may hold: of density > 0, and <<1>> of density 0
ChainPoints(d) == IF d = 1 THEN {<<0>>, <<-1>>, <<1>>} ELSE {<<0, 0>>, <<-1, 0>>}

\* the densities the estimator is run with: c * p for c in 1..MaxScale
EstimatorPdfs == {[shape |-> sh, c |-> k] : sh \in PdfShapes, k \in 1..MaxScale}

\* weights = f(m_chain) / target_pdf(m_chain), elementwise
Weights(fn, tp, chain) ==
    [i \in 1..Len(chain) |-> QDiv(Integrand(fn, chain[i]), TargetPdf(tp, chain[i]))]

\* WeightsMean with a fault: np.sum(weights)
WeightsMean_sum(w) == QSum(w)

\* estimate = np.mean(weights)
WeightsMean(w) == QMean(w)

ISInit ==
    /\ BVIdle
    /\ GSIdle
    /\ MCIdle
    /\ f \in Integrands
    /\ is_pdf \in EstimatorPdfs
    /\ \E d \in 1..2, n \in 1..MaxChain : m_chain \in [1..n -> ChainPoints(d)]
    /\ is_pc = "call"
    /\ weights = <<>>
    /\ estimate = <<>>
    /\ is_ret = <<>>

\* line 82
ISWeights ==
    /\ is_pc = "call"
    /\ weights' = Weights(f, is_pdf, m_chain)
    /\ is_pc' = "mean"
    /\ UNCHANGED <<f, is_pdf, m_chain, estimate, is_ret>>
    /\ UNCHANGED notIS

\* line 83
ISMean ==
    /\ is_pc = "mean"
    /\ estimate' = WeightsMean(weights)
    /\ is_pc' = "return"
    /\ UNCHANGED <<f, is_pdf, m_chain, weights, is_ret>>
    /\ UNCHANGED notIS

\* line 84
ISReturn ==
    /\ is_pc = "return"
    /\ is_ret' = estimate
    /\ is_pc' = "done"
    /\ UNCHANGED <<f, is_pdf, m_chain, weights, estimate>>
    /\ UNCHANGED notIS

ISNext == ISWeights \/ ISMean \/ ISReturn

SpecImportance == ISInit /\ [][ISNext]_vars

\* bounds = [low, high] with low[i] < high[i]
Boxes ==
    { <<<<-1>>, <<1>>>>, <<<<0>>, <<2>>>>, <<<<-1>>, <<2>>>>,
      <<<<-1, 0>>, <<1, 1>>>>, <<<<0, -1>>, <<1, 1>>>> }

\* the points np.random.uniform(low, high) may return: low <= p < high
BoxPoints(b) ==
    {p \in [1..Len(b[1]) -> -1..1] :
        \A i \in 1..Len(b[1]) : b[1][i] <= p[i] /\ p[i] < b[2][i]}

\* vol = np.prod(high - low)
RECURSIVE ProdDiff(_, _)
ProdDiff(lo, hi) ==
    IF lo = <<>> THEN 1
    ELSE (Head(hi) - Head(lo)) * ProdDiff(Tail(lo), Tail(hi))

\* values = integrand(samples)
Values(fn, smp) == [i \in 1..Len(smp) |-> Integrand(fn, smp[i])]

\* ValuesVar with a fault: np.std(values, ddof=1)
ValuesVar_ddof1(v) == QVar(v, 1)

\* np.std(values) ** 2: the population variance
ValuesVar(v) == QVar(v, 0)

\* vol * np.std(values) / np.sqrt(N) = vol * sqrt(var / N)
StdError(vl, v, n) == Surd(QInt(vl), QDiv(ValuesVar(v), QInt(n)))

SurdIsZero(sd) == sd[1] = QInt(0) \/ sd[2] = QInt(0)

MCInit ==
    /\ BVIdle
    /\ GSIdle
    /\ ISIdle
    /\ integrand \in Integrands
    /\ bounds \in Boxes
    /\ mc_N \in 1..MaxSamples
    /\ mc_pc = "call"
    /\ mc_samples = <<>>
    /\ vol = 0
    /\ values = <<>>
    /\ mc_estimate = <<>>
    /\ std_error = <<>>
    /\ mc_ret = <<>>

\* lines 44-47
MCSample ==
    /\ mc_pc = "call"
    /\ mc_samples' \in [1..mc_N -> BoxPoints(bounds)]
    /\ mc_pc' = "evaluate"
    /\ UNCHANGED <<integrand, bounds, mc_N, vol, values, mc_estimate,
                   std_error, mc_ret>>
    /\ UNCHANGED notMC

\* lines 48-51
MCEvaluate ==
    /\ mc_pc = "evaluate"
    /\ vol' = ProdDiff(bounds[1], bounds[2])
    /\ values' = Values(integrand, mc_samples)
    /\ mc_estimate' = QMul(QInt(vol'), QMean(values'))
    /\ std_error' = StdError(vol', values', mc_N)
    /\ mc_pc' = "return"
    /\ UNCHANGED <<integrand, bounds, mc_N, mc_samples, mc_ret>>
    /\ UNCHANGED notMC

\* line 52
MCReturn ==
    /\ mc_pc = "return"
    /\ mc_ret' = <<mc_estimate, std_error>>
    /\ mc_pc' = "done"
    /\ UNCHANGED <<integrand, bounds, mc_N, mc_samples, vol, values,
                   mc_estimate, std_error>>
    /\ UNCHANGED notMC

MCNext == MCSample \/ MCEvaluate \/ MCReturn

SpecMonteCarlo == MCInit /\ [][MCNext]_vars

---------------------------------------------------------------------------
(* Claims about importance_integration and monte_carlo_integral *)

ZeroDensityInChain ==
    \E i \in 1..Len(m_chain) : TargetPdf(is_pdf, m_chain[i]) = QInt(0)

\* C7 (as claimed): when the density is zero at a chain element the estimator
\* signals a failure; it never returns an infinite or NaN mean.
C7_ZeroDensitySignalled ==
    ZeroDensityInChain =>
        ~(is_pc = "done" /\ ~IsFinite(is_ret))

\* the density without its normalisation constant
BasePdf == [shape |-> is_pdf.shape, c |-> 1]

BaseWeights ==
    [i \in 1..Len(m_chain) |->
        QDiv(Integrand(f, m_chain[i]), TargetPdf(BasePdf, m_chain[i]))]

\* C9 (as claimed): the estimate does not depend on the normalisation of the
\* density: with c * p it is the mean of f / p.
C9_NormalisationIndependent ==
    is_pc = "done" =>
        QMul(is_ret, QInt(Len(m_chain))) = QSum(BaseWeights)

\* C9 (amended): the estimate is the arithmetic mean of f / target_pdf, and
\* with target_pdf = c * p it is the mean of f / p divided by c.
C9_MeanOfWeights ==
    is_pc = "done" =>
        /\ QMul(is_ret, QInt(Len(m_chain))) =
               QSum([i \in 1..Len(m_chain) |->
                       QDiv(Integrand(f, m_chain[i]),
                            TargetPdf(is_pdf, m_chain[i]))])
        /\ QMul(QMul(is_ret, QInt(is_pdf.c)), QInt(Len(m_chain))) =
               QSum(BaseWeights)

C9_Witness ==
    /\ is_pc = "done"
    /\ is_pdf.c = 2
    /\ Len(m_chain) >= 2
    /\ weights[1] # weights[2]
    /\ IsFinite(is_ret)
    /\ is_ret # QInt(0)
    /\ QMul(is_ret, QInt(2)) = QMean(BaseWeights)

BoxVolume ==
    IF Len(bounds[1]) = 1 THEN bounds[2][1] - bounds[1][1]
    ELSE (bounds[2][1] - bounds[1][1]) * (bounds[2][2] - bounds[1][2])

\* C10: the estimate is volume * mean(values); with one sample the standard
\* error is exactly 0 and the estimate is volume times the one value.
C10_SingleSample ==
    mc_pc = "done" =>
        /\ Len(mc_samples) = mc_N
        /\ QMul(mc_ret[1], QInt(mc_N)) =
               QMul(QInt(BoxVolume),
                    QSum([i \in 1..mc_N |-> Integrand(integrand, mc_samples[i])]))
        /\ mc_N = 1 =>
               /\ SurdIsZero(mc_ret[2])
               /\ IsFinite(mc_ret[2][1])
               /\ IsFinite(mc_ret[2][2])
               /\ mc_ret[1] =
                      QMul(QInt(BoxVolume), Integrand(integrand, mc_samples[1]))

C10_Witness ==
    /\ mc_pc = "done"
    /\ mc_N = 1
    /\ BoxVolume = 3
    /\ mc_ret[1] = QInt(6)
    /\ SurdIsZero(mc_ret[2])

---------------------------------------------------------------------------
(* blocking_variance *)

RECURSIVE Pow2(_)
Pow2(k) == IF k = 0 THEN 1 ELSE 2 * Pow2(k - 1)

\* int(np.log2(q)) for q >= 1: the largest k with 2^k <= q
RECURSIVE FloorLog2(_)
FloorLog2(q) == IF q < 2 THEN 0 ELSE 1 + FloorLog2(q \div 2)

\* series kinds the analysis is run on (the series' values, by position)
SeriesKinds == {"const", "alt", "ramp", "saw"}

SeriesOf(kind, n) ==
    [i \in 1..n |->
        CASE kind = "const" -> 3
          [] kind = "alt"   -> (i - 1) % 2
          [] kind = "ramp"  -> i - 1
          [] kind = "saw"   -> ((i - 1) * (i - 1)) % 5]


\* N = len(series)
SeriesLen == Len(series)

\* MaxPower with a fault: int(np.log2(N))
MaxPower_ofN(n, mb) == FloorLog2(n)

\* max_power = int(np.log2(N // min_blocks)), for N // min_blocks >= 1
MaxPower(n, mb) == FloorLog2(n \div mb)

\* BinSizes with a fault: 2 ** np.arange(1, max_power + 2)
BinSizes_from2(mp) == [k \in 1..(mp + 1) |-> Pow2(k)]

\* bin_sizes = 2 ** np.arange(max_power + 1)
BinSizes(mp) == [k \in 1..(mp + 1) |-> Pow2(k - 1)]

\* LoopL with a fault: for L in range(1, len(bin_sizes) + 1)
LoopL_index(bs, i) == i

\* for L in bin_sizes: the block length of the i-th iteration
LoopL(bs, i) == bs[i]

\* n_blocks = N // L
NBlocks(n, L) == n \div L

\* BlockMeans with a fault: series[:n_blocks * L].reshape(L, n_blocks).mean(axis=0)
BlockMeans_strided(s, nb, L) ==
    [b \in 1..nb |->
        QMean([k \in 1..L |-> QInt(s[(k - 1) * nb + b])])]

\* series[:n_blocks * L].reshape(n_blocks, L).mean(axis=1)
BlockMeans(s, nb, L) ==
    [b \in 1..nb |->
        QMean([k \in 1..L |-> QInt(s[(b - 1) * L + k])])]

\* s2 = blocks.var(ddof=1); v_mean = s2 / n_blocks
VMean(bl, nb) == QDiv(QVar(bl, 1), QInt(nb))

\* v_mean * np.sqrt(2 / (n_blocks - 1))
ErrVar(v, nb) == Surd(v, QDiv(QInt(2), QInt(nb - 1)))

\* bin_sizes[:len(var_mean)]
Truncate(bs, n) == SubSeq(bs, 1, IF n < Len(bs) THEN n ELSE Len(bs))

BVInit ==
    /\ GSIdle
    /\ ISIdle
    /\ MCIdle
    /\ \E kind \in SeriesKinds, n \in 0..MaxN : series = SeriesOf(kind, n)
    /\ min_blocks \in 1..MaxMinBlocks
    /\ bv_pc = "call"
    /\ max_power = 0
    /\ bin_sizes = <<>>
    /\ bv_i = 1
    /\ var_mean = <<>>
    /\ err_var = <<>>
    /\ bv_ret = <<>>
    /\ blocks = <<>>

\* lines 174-178: np.log2(0) is -inf and int(-inf) raises OverflowError
BVSetup ==
    /\ bv_pc = "call"
    /\ IF SeriesLen \div min_blocks = 0
       THEN /\ bv_pc' = "OverflowError"
            /\ UNCHANGED <<max_power, bin_sizes>>
       ELSE /\ max_power' = MaxPower(SeriesLen, min_blocks)
            /\ bin_sizes' = BinSizes(MaxPower(SeriesLen, min_blocks))
            /\ bv_pc' = "loop"
    /\ var_mean' = <<>>
    /\ err_var' = <<>>
    /\ bv_i' = 1
    /\ UNCHANGED <<series, min_blocks, bv_ret, blocks>>
    /\ UNCHANGED notBV

\* lines 179-191: one iteration of the loop over bin_sizes, or its end
BVLoop ==
    /\ bv_pc = "loop"
    /\ IF bv_i > Len(bin_sizes)
       THEN /\ bv_pc' = "return"
            /\ UNCHANGED <<bv_i, var_mean, err_var, blocks>>
       ELSE LET L == LoopL(bin_sizes, bv_i)
                n_blocks == NBlocks(SeriesLen, L)
                bl == BlockMeans(series, n_blocks, L)
                v_mean == VMean(bl, n_blocks)
            IN  IF n_blocks < min_blocks
                THEN /\ bv_pc' = "return"
                     /\ UNCHANGED <<bv_i, var_mean, err_var, blocks>>
                ELSE /\ blocks' = bl
                     /\ var_mean' = Append(var_mean, v_mean)
                     /\ err_var' = Append(err_var, ErrVar(v_mean, n_blocks))
                     /\ bv_i' = bv_i + 1
                     /\ bv_pc' = "loop"
    /\ UNCHANGED <<series, min_blocks, max_power, bin_sizes, bv_ret>>
    /\ UNCHANGED notBV

\* line 193
BVReturn ==
    /\ bv_pc = "return"
    /\ bv_ret' = <<Truncate(bin_sizes, Len(var_mean)), var_mean, err_var>>
    /\ bv_pc' = "done"
    /\ UNCHANGED <<series, min_blocks, max_power, bin_sizes, bv_i, var_mean,
                   err_var, blocks>>
    /\ UNCHANGED notBV

BVNext == BVSetup \/ BVLoop \/ BVReturn

SpecBlocking == BVInit /\ [][BVNext]_vars

---------------------------------------------------------------------------
(* Claims about blocking_variance *)

BVReturned == bv_pc = "done"

\* C1: for N >= min_blocks >= 1 the call returns, and the returned block
\* lengths are 1, 2, 4, ... with no power of two skipped, 2^k being listed
\* exactly when N // 2^k >= min_blocks; N = 16, min_blocks = 4 gives 1, 2, 4.
C1_BlockLengths ==
    SeriesLen >= min_blocks =>
        /\ bv_pc # "OverflowError"
        /\ BVReturned =>
            LET bs == bv_ret[1]
            IN  /\ \A i \in 1..Len(bs) : bs[i] = Pow2(i - 1)
                /\ \A i \in 1..(Len(bs) - 1) : bs[i] < bs[i + 1]
                /\ \A k \in 0..SeriesLen :
                       (SeriesLen \div Pow2(k) >= min_blocks) <=> (k < Len(bs))
                /\ (SeriesLen = 16 /\ min_blocks = 4) => bs = <<1, 2, 4>>

C1_Witness ==
    /\ BVReturned
    /\ SeriesLen = 16
    /\ min_blocks = 4
    /\ bv_ret[1] = <<1, 2, 4>>

\* C2 (as claimed): a series shorter than min_blocks yields an empty curve,
\* three empty sequences, and no exception.
C2_DegenerateReturnsEmpty ==
    SeriesLen < min_blocks =>
        /\ bv_pc # "OverflowError"
        /\ BVReturned => bv_ret = <<<<>>, <<>>, <<>>>>

\* C3: the three returned sequences have one length, and entry i of var_mean
\* and of err_var is the value computed from the series with block length
\* bin_sizes[i].
C3_ParallelSequences ==
    BVReturned =>
        /\ Len(bv_ret[1]) = Len(bv_ret[2])
        /\ Len(bv_ret[2]) = Len(bv_ret[3])
        /\ \A i \in 1..Len(bv_ret[1]) :
               LET L == bv_ret[1][i]
                   nb == SeriesLen \div L
                   v == VMean(BlockMeans(series, nb, L), nb)
               IN  /\ bv_ret[2][i] = v
                   /\ bv_ret[3][i] = ErrVar(v, nb)

C3_Witness ==
    /\ BVReturned
    /\ Len(bv_ret[1]) >= 3
    /\ Len(bv_ret[2]) = Len(bv_ret[1])
    /\ bv_ret[2][1] # bv_ret[2][3]
    /\ bv_ret[2][2] # bv_ret[2][3]

\* the sum of the elements of s at the 0-based positions i < n with i // L = b
RECURSIVE BlockSum(_, _, _, _)
BlockSum(s, L, b, n) ==
    IF n = 0
    THEN 0
    ELSE BlockSum(s, L, b, n - 1) + (IF (n - 1) \div L = b THEN s[n] ELSE 0)

\* C16: at every processed block length L the block means are taken over
\* the first (N // L) * L elements, cut into N // L contiguous blocks of
\* length L: the mean of block b is the sum over the positions i with
\* i // L = b divided by L, every position below (N // L) * L lies in exactly
\* one block, and the N mod L trailing positions lie in none
C16_ContiguousBlocks ==
    Len(var_mean) >= 1 =>
        LET L == bin_sizes[Len(var_mean)]
            nb == SeriesLen \div L
        IN  /\ Len(blocks) = nb
            /\ nb * L <= SeriesLen
            /\ SeriesLen - nb * L = SeriesLen % L
            /\ \A b \in 1..nb :
                   QMul(blocks[b], QInt(L))
                       = QInt(BlockSum(series, L, b - 1, SeriesLen))
            /\ \A i \in 0..(SeriesLen - 1) :
                   /\ i < nb * L
                          => Cardinality({b \in 1..nb : i \div L = b - 1}) = 1
                   /\ i >= nb * L => i \div L = nb

C16_Witness ==
    /\ BVReturned
    /\ SeriesLen = 7
    /\ series[7] = 6
    /\ min_blocks = 2
    /\ Len(var_mean) = 2
    /\ blocks = <<QNorm(1, 2), QNorm(5, 2), QNorm(9, 2)>>

\* the sum of g[1], .., g[n]
RECURSIVE SumTo(_, _)
SumTo(g, n) == IF n = 0 THEN 0 ELSE SumTo(g, n - 1) + g[n]

\* C17 (as claimed): every var_mean entry equals s2 / n_blocks with
\* s2 = sum_i (m_i - mean(m))^2 / (n_blocks - 1) over the block means m_i,
\* so every entry is a number that is non-negative, and zero exactly when all
\* block means at that L are equal; a constant series of length
\* N >= min_blocks gives a non-empty curve of zeros.
\* With block sums S_b = L * m_b the sum of squares is
\* (n_blocks * sum S_b^2 - (sum S_b)^2) / (n_blocks * L^2).
C17_UnbiasedVarianceOfMean ==
    /\ \A i \in 1..Len(var_mean) :
           LET L == bin_sizes[i]
               nb == SeriesLen \div L
               S == [b \in 1..nb |-> BlockSum(series, L, b - 1, SeriesLen)]
               SS == nb * SumTo([b \in 1..nb |-> S[b] * S[b]], nb)
                         - SumTo(S, nb) * SumTo(S, nb)
               v == var_mean[i]
           IN  /\ QMul(v, QInt(nb * nb * (nb - 1) * L * L)) = QInt(SS)
               /\ IsFinite(v)
               /\ ~QLt(v, QInt(0))
               /\ v = QInt(0) <=> (\A b \in 1..nb : S[b] = S[1])
    /\ (/\ BVReturned
        /\ SeriesLen >= min_blocks
        /\ \A k \in 1..SeriesLen : series[k] = series[1])
           => /\ Len(bv_ret[2]) >= 1
              /\ \A i \in 1..Len(bv_ret[2]) : bv_ret[2][i] = QInt(0)

\* C21 (as claimed): for N >= min_blocks >= 1 every processed block length
\* L has n_blocks = N // L >= 2, so that n_blocks - 1, the denominator of the
\* unbiased variance and of 2 / (n_blocks - 1), is never zero and the entries
\* computed with it are numbers.
C21_AtLeastTwoBlocks ==
    SeriesLen >= min_blocks =>
        \A i \in 1..Len(var_mean) :
            /\ NBlocks(SeriesLen, bin_sizes[i]) >= 2
            /\ NBlocks(SeriesLen, bin_sizes[i]) - 1 # 0
            /\ IsFinite(var_mean[i])
            /\ IsFinite(err_var[i][2])

\* C22: for N >= min_blocks >= 1 every candidate of bin_sizes = 2^0, ..,
\* 2^max_power has N // L >= min_blocks, the loop ends by running out of
\* candidates and never by its early exit, and the returned curve has
\* exactly max_power + 1 entries, the truncation removing none
C22_NoEarlyExit ==
    (SeriesLen >= min_blocks /\ bv_pc \in {"loop", "return", "done"}) =>
        /\ max_power = FloorLog2(SeriesLen \div min_blocks)
        /\ Len(bin_sizes) = max_power + 1
        /\ \A i \in 1..Len(bin_sizes) :
               /\ bin_sizes[i] = Pow2(i - 1)
               /\ SeriesLen \div bin_sizes[i] >= min_blocks
        /\ bv_pc \in {"return", "done"}
               => /\ bv_i = Len(bin_sizes) + 1
                  /\ Len(var_mean) = max_power + 1
                  /\ Len(err_var) = max_power + 1
        /\ BVReturned
               => /\ bv_ret[1] = bin_sizes
                  /\ Len(bv_ret[1]) = max_power + 1
                  /\ Len(bv_ret[2]) = max_power + 1
                  /\ Len(bv_ret[3]) = max_power + 1

C22_Witness ==
    /\ BVReturned
    /\ SeriesLen = 13
    /\ min_blocks = 3
    /\ max_power = 2
    /\ bin_sizes = <<1, 2, 4>>
    /\ Len(bv_ret[2]) = 3
    /\ bv_ret[2][1] # bv_ret[2][3]

=============================================================================
